---- MODULE Spec2Model ----
(***************************************************************************)
(* One render pass of streamlit_app.py: the two cached loaders, tidy(),    *)
(* the filter widgets and masks, and the four chart sections, as a state   *)
(* machine over the script's module-level names.                           *)
(*                                                                         *)
(* Representation.  A cell of a raw table is Null (None / NaN) or Str(s).  *)
(* Year and ZIP cells hold s as a sequence of one-character strings, so    *)
(* that parsing and digit extraction are computed; substance cells hold s  *)
(* as a sequence of lexemes (words, separators), so that "keyword in s"    *)
(* is the presence of the keyword's lexeme after upper().  A table is      *)
(* [cols, rows]: the column names in order and a sequence of rows, each a  *)
(* function from the column names to cells.  The column "age" plays no     *)
(* part in any table operation modelled here and is left out.              *)
(***************************************************************************)
EXTENDS Integers, Sequences, FiniteSets, TLC

VARIABLES
    api_response,   \* what requests.get(DATA_API_URL) yields: Fail or Ok(table)
    local_csv,      \* data/Fatal-Accidental-Overdoses.csv: Fail (absent) or Ok(table)
    geo_response,   \* what requests.get(PA_ZIP_GEOJSON) yields: Fail or Ok(features)
    local_geojson,  \* data/pa_pennsylvania_zip_codes_geo.min.json: Fail or Ok(features)
    pc,             \* the script section about to run
    df_raw,         \* result of load_from_api()
    df, melted, meta,                       \* results of tidy(df_raw)
    year_range, sex_filter, zip_select,     \* filter widgets
    dff, meltedf,                           \* filtered views
    lines_df,       \* Viz 1: concat(series_frames), rows (year, count, series)
    subs_year,      \* Viz 2: rows (year, substance, mentions)
    combos,         \* Viz 4: the loop's `combo` per row of dff (<<>> when subs is empty)
    combo_counts,   \* Viz 4: Counter, combination key -> count
    geojson,        \* Viz 3: result of load_geojson
    zip_counts,     \* Viz 3: rows (zip_norm, count)
    charts,         \* figures handed to st.plotly_chart in this pass
    notices,        \* st.error / st.warning / st.info messages shown in this pass
    cell,           \* classifier harness: the cell under classification
    labels          \* classifier harness: [long, combo] results, or Null before

vars == <<api_response, local_csv, geo_response, local_geojson, pc, df_raw, df, melted,
          meta, year_range, sex_filter, zip_select, dff, meltedf, lines_df, subs_year,
          combos, combo_counts, geojson, zip_counts, charts, notices, cell, labels>>

-----------------------------------------------------------------------------
(* Bounds of the model *)

MaxRecords == 2     \* rows in a loaded batch
MaxLexemes == 3     \* lexemes in a cell handed to the classifier harness

-----------------------------------------------------------------------------
(* Cells, strings, numbers *)

Null == [isna |-> TRUE]
Str(s) == [isna |-> FALSE, s |-> s]

Fail == [ok |-> FALSE]
Ok(v) == [ok |-> TRUE, v |-> v]

NaN == -1    \* np.nan in a numeric column; parsed numbers are >= 0

Range(f) == {f[i] : i \in DOMAIN f}

Digits == {"0", "1", "2", "3", "4", "5", "6", "7", "8", "9"}

DigitVal ==
    ("0" :> 0) @@ ("1" :> 1) @@ ("2" :> 2) @@ ("3" :> 3) @@ ("4" :> 4) @@
    ("5" :> 5) @@ ("6" :> 6) @@ ("7" :> 7) @@ ("8" :> 8) @@ ("9" :> 9)

AllDigits(s) == \A i \in 1..Len(s) : s[i] \in Digits

RECURSIVE DigitsValue(_)
DigitsValue(s) ==
    IF s = <<>> THEN 0
    ELSE 10 * DigitsValue(SubSeq(s, 1, Len(s) - 1)) + DigitVal[s[Len(s)]]

\* pd.to_numeric(col, errors="coerce") on one cell: a digit string parses, anything
\* else (None, "", text) becomes NaN.
to_numeric(c) ==
    IF c.isna THEN NaN
    ELSE IF c.s # <<>> /\ AllDigits(c.s) THEN DigitsValue(c.s)
    ELSE NaN

\* Series.astype(str) on one cell: a missing value becomes the string "nan".
astype_str(c) == IF c.isna THEN <<"n", "a", "n">> ELSE c.s

\* .str.extract(r"(\d{5})")[0] on one string: the leftmost five consecutive digits,
\* or a missing value when there is no such run.
str_extract(s) ==
    LET hits == {i \in 1..(Len(s) - 4) : AllDigits(SubSeq(s, i, i + 4))}
    IN  IF hits = {} THEN Null
        ELSE LET i == CHOOSE j \in hits : \A k \in hits : j <= k
             IN  Str(SubSeq(s, i, i + 4))

\* str.zfill(width)
RECURSIVE zfill(_, _)
zfill(s, width) == IF Len(s) >= width THEN s ELSE zfill(<<"0">> \o s, width)

\* lines 105-111: the chain applied to one cell of the resolved ZIP column
zip_norm_of(c) == Str(zfill(astype_str(str_extract(astype_str(c))), 5))

-----------------------------------------------------------------------------
(* Substance strings: lexemes, str.upper, str.strip, str.title, ordering *)

UpperOf ==
    ("FENTANYL" :> "FENTANYL") @@ ("fentanyl" :> "FENTANYL") @@
    ("HEROIN" :> "HEROIN") @@ ("Heroin" :> "HEROIN") @@
    ("COCAINE" :> "COCAINE") @@ ("cocaine" :> "COCAINE") @@
    ("ALCOHOL" :> "ALCOHOL") @@ ("alcohol" :> "ALCOHOL") @@
    ("MORPHINE" :> "MORPHINE") @@ ("opiate" :> "OPIATE") @@
    ("XYLAZINE" :> "XYLAZINE") @@ ("xylazine" :> "XYLAZINE") @@
    ("HCL" :> "HCL") @@ ("-" :> "-") @@ (" " :> " ")

TitleOf ==
    ("FENTANYL" :> "Fentanyl") @@ ("HEROIN" :> "Heroin") @@ ("COCAINE" :> "Cocaine") @@
    ("ALCOHOL" :> "Alcohol") @@ ("MORPHINE" :> "Morphine") @@ ("OPIATE" :> "Opiate") @@
    ("XYLAZINE" :> "Xylazine") @@ ("HCL" :> "Hcl") @@ ("-" :> "-") @@ (" " :> " ")

\* Python's str ordering (by code point) over the lexemes a label can hold.
LexRank ==
    (" " :> 0) @@ ("-" :> 1) @@ ("Alcohol" :> 2) @@ ("Cocaine" :> 3) @@
    ("Fentanyl" :> 4) @@ ("Hcl" :> 5) @@ ("Heroin" :> 6) @@ ("Morphine" :> 7) @@
    ("Opiate" :> 8) @@ ("Other Opioids" :> 9) @@ ("Other/Unknown" :> 10) @@
    ("Xylazine" :> 11)

upper(s) == [i \in 1..Len(s) |-> UpperOf[s[i]]]

title(s) == [i \in 1..Len(s) |-> TitleOf[s[i]]]

RECURSIVE strip(_)
strip(s) ==
    IF s = <<>> THEN s
    ELSE IF Head(s) = " " THEN strip(Tail(s))
    ELSE IF s[Len(s)] = " " THEN strip(SubSeq(s, 1, Len(s) - 1))
    ELSE s

\* Python's `k in s` for a keyword k
Contains(s, k) == \E i \in 1..Len(s) : s[i] = k

OpioidKeywords == {"MORPHINE", "OXYCODONE", "HYDROCODONE", "OPIOID", "OPIATE"}

\* a < b on str
RECURSIVE str_lt(_, _)
str_lt(a, b) ==
    IF b = <<>> THEN FALSE
    ELSE IF a = <<>> THEN TRUE
    ELSE IF Head(a) = Head(b) THEN str_lt(Tail(a), Tail(b))
    ELSE LexRank[Head(a)] < LexRank[Head(b)]

\* classify with the heroin test ahead of the fentanyl test
classify_heroin_first(c) ==
    IF c.isna THEN Null
    ELSE LET s == upper(c.s)
         IN  IF Contains(s, "HEROIN") THEN Str(<<"Heroin">>)
             ELSE IF Contains(s, "FENTANYL") THEN Str(<<"Fentanyl">>)
             ELSE IF Contains(s, "COCAINE") THEN Str(<<"Cocaine">>)
             ELSE IF Contains(s, "ALCOHOL") THEN Str(<<"Alcohol">>)
             ELSE IF \E k \in OpioidKeywords : Contains(s, k) THEN Str(<<"Other Opioids">>)
             ELSE Str(<<"Other/Unknown">>)

\* tidy.classify (lines 116-130)
classify(c) ==
    IF c.isna THEN Null
    ELSE LET s == upper(c.s)
         IN  IF Contains(s, "FENTANYL") THEN Str(<<"Fentanyl">>)
             ELSE IF Contains(s, "HEROIN") THEN Str(<<"Heroin">>)
             ELSE IF Contains(s, "COCAINE") THEN Str(<<"Cocaine">>)
             ELSE IF Contains(s, "ALCOHOL") THEN Str(<<"Alcohol">>)
             ELSE IF \E k \in OpioidKeywords : Contains(s, k) THEN Str(<<"Other Opioids">>)
             ELSE Str(<<"Other/Unknown">>)

\* clean_substance (lines 357-372)
clean_substance(c) ==
    IF c.isna THEN Null
    ELSE LET s == upper(strip(c.s))
         IN  IF Contains(s, "FENTANYL") THEN Str(<<"Fentanyl">>)
             ELSE IF Contains(s, "HEROIN") THEN Str(<<"Heroin">>)
             ELSE IF Contains(s, "COCAINE") THEN Str(<<"Cocaine">>)
             ELSE IF Contains(s, "ALCOHOL") THEN Str(<<"Alcohol">>)
             ELSE IF \E k \in OpioidKeywords : Contains(s, k) THEN Str(<<"Other Opioids">>)
             ELSE Str(title(s))

\* sorted(S) for a set of str
RECURSIVE sorted(_)
sorted(S) ==
    IF S = {} THEN <<>>
    ELSE LET m == CHOOSE x \in S : \A y \in S \ {x} : str_lt(x, y)
         IN  <<m>> \o sorted(S \ {m})

\* " + ".join(subs)
RECURSIVE join(_)
join(subs) ==
    IF subs = <<>> THEN <<>>
    ELSE IF Len(subs) = 1 THEN subs[1]
    ELSE subs[1] \o <<" + ">> \o join(Tail(subs))

\* subs_of keeping the labels in column order, unsorted and with repeats
RECURSIVE subs_of_unsorted(_, _)
subs_of_unsorted(row, od_cols) ==
    IF od_cols = <<>> THEN <<>>
    ELSE LET g == clean_substance(row[Head(od_cols)])
         IN  (IF ~g.isna /\ g.s # <<>> THEN <<g.s>> ELSE <<>>)
             \o subs_of_unsorted(row, Tail(od_cols))

\* line 377: sorted(set(filter(None, (clean_substance(row[c]) for c in od_cols))))
subs_of(row, od_cols) ==
    LET got == {clean_substance(row[od_cols[i]]) : i \in 1..Len(od_cols)}
    IN  sorted({l.s : l \in {g \in got : ~g.isna /\ g.s # <<>>}})

-----------------------------------------------------------------------------
(* tidy (lines 77-162) *)

FLOOR_YEAR == 2008
DEFAULT_YEAR_MAX == 2025

ZipCandidates == <<"incident_zip", "zip", "zipcode", "incident_zipcode", "zcta">>

\* str.lower over the column names of the model
ColLower(c) == IF c = "Combined_OD2" THEN "combined_od2" ELSE c

\* c.lower().startswith("combined_od")
IsOdCol(c) == ColLower(c) \in {"combined_od1", "combined_od2"}

SetMin(S) == CHOOSE x \in S : \A y \in S : x <= y
SetMax(S) == CHOOSE x \in S : \A y \in S : x >= y

\* Series.between(lo, hi, inclusive="both") on one value: NaN is never between
between(y, lo, hi) == y # NaN /\ lo <= y /\ y <= hi

\* lines 79-84
year_of(cols, r) ==
    IF "case_year" \in Range(cols) THEN to_numeric(r["case_year"])
    ELSE IF "death_year" \in Range(cols) THEN to_numeric(r["death_year"])
    ELSE NaN

\* lines 87-90
sex_of(cols, r) ==
    IF "sex" \in Range(cols)
    THEN IF r["sex"].isna THEN "Unknown"
         ELSE IF r["sex"].s = "M" THEN "Male"
         ELSE IF r["sex"].s = "F" THEN "Female"
         ELSE IF r["sex"].s = "U" THEN "Unknown"
         ELSE r["sex"].s
    ELSE "Unknown"

\* lines 97-101: the first candidate that is a column, or None
zip_col_of(cols) ==
    LET present == {i \in 1..Len(ZipCandidates) : ZipCandidates[i] \in Range(cols)}
    IN  IF present = {} THEN Null ELSE Str(ZipCandidates[SetMin(present)])

\* lines 102-111
zip_of(cols, r) ==
    LET zc == zip_col_of(cols)
    IN  IF zc.isna THEN Null ELSE zip_norm_of(r[zc.s])

\* line 114
od_cols_of(cols) == SelectSeq(cols, IsOdCol)

\* the columns tidy adds to one row; `case` is the row's position in the batch
wide_row(cols, rows, i) ==
    [case |-> i, year |-> year_of(cols, rows[i]), sex |-> sex_of(cols, rows[i]),
     zip_norm |-> zip_of(cols, rows[i]), raw |-> rows[i]]

\* lines 132-142: melt over od_cols, classify, dropna(subset=["substance"])
RECURSIVE melt(_, _)
melt(wide, od_cols) ==
    IF od_cols = <<>> THEN <<>>
    ELSE LET c == Head(od_cols)
             part == [i \in 1..Len(wide) |->
                        [case |-> wide[i].case, year |-> wide[i].year, sex |-> wide[i].sex,
                         zip_norm |-> wide[i].zip_norm, od_col |-> c,
                         raw_substance |-> wide[i].raw[c],
                         substance |-> classify(wide[i].raw[c])]]
         IN  SelectSeq(part, LAMBDA m : ~m.substance.isna) \o melt(wide, Tail(od_cols))

\* year_bounds without the 2008 floor
year_bounds_no_floor(wide) ==
    LET ys == {wide[i].year : i \in 1..Len(wide)} \ {NaN}
    IN  IF ys # {}
        THEN [year_min |-> SetMin(ys), year_max |-> SetMax(ys)]
        ELSE [year_min |-> FLOOR_YEAR, year_max |-> DEFAULT_YEAR_MAX]

\* lines 145-149
year_bounds(wide) ==
    LET ys == {wide[i].year : i \in 1..Len(wide)} \ {NaN}
    IN  IF ys # {}
        THEN [year_min |-> IF SetMin(ys) >= FLOOR_YEAR THEN SetMin(ys) ELSE FLOOR_YEAR,
              year_max |-> SetMax(ys)]
        ELSE [year_min |-> FLOOR_YEAR, year_max |-> DEFAULT_YEAR_MAX]

\* in_bounds testing the upper bound only
in_bounds_upper_only(row, b) == row.year <= b.year_max

\* lines 151-152
in_bounds(row, b) == between(row.year, b.year_min, b.year_max)

tidy(tbl) ==
    LET wide == [i \in 1..Len(tbl.rows) |-> wide_row(tbl.cols, tbl.rows, i)]
        od_cols == od_cols_of(tbl.cols)
        long == melt(wide, od_cols)
        b == year_bounds(wide)
        kept == SelectSeq(wide, LAMBDA r : in_bounds(r, b))
    IN  [df |-> [cols |-> tbl.cols, rows |-> kept],
         melted |-> SelectSeq(long, LAMBDA m : in_bounds(m, b)),
         meta |-> [year_min |-> b.year_min, year_max |-> b.year_max,
                   has_substances |-> Len(od_cols) > 0,
                   has_zip |-> \E i \in 1..Len(kept) : ~kept[i].zip_norm.isna]]

-----------------------------------------------------------------------------
(* Loaders (lines 43-72).  Each returns [ret, shown]: the value returned, or Fail  *)
(* when the exception is re-raised, and the messages it showed.                    *)

\* load_from_api without the CSV fallback
load_from_api_no_fallback ==
    IF api_response.ok THEN [ret |-> Ok(api_response.v), shown |-> {}]
    ELSE [ret |-> Fail, shown |-> {"warning: API request failed"}]

load_from_api ==
    IF api_response.ok THEN [ret |-> Ok(api_response.v), shown |-> {}]
    ELSE IF local_csv.ok
    THEN [ret |-> Ok(local_csv.v), shown |-> {"warning: API request failed"}]
    ELSE [ret |-> Fail,
          shown |-> {"warning: API request failed", "error: Local CSV file not found"}]

load_geojson ==
    IF geo_response.ok THEN [ret |-> Ok(geo_response.v), shown |-> {}]
    ELSE IF local_geojson.ok
    THEN [ret |-> Ok(local_geojson.v), shown |-> {"warning: GeoJSON request failed"}]
    ELSE [ret |-> Fail,
          shown |-> {"warning: GeoJSON request failed",
                     "error: Local GeoJSON file not found"}]

-----------------------------------------------------------------------------
(* Filters (lines 194-221) *)

ALL_ZIPS == <<"ALL ZIPs">>

\* positions the year slider is moved to in the model
SliderStops == {2008, 2019, 2020, 2025}

\* line 201
sexes_all == {df.rows[i].sex : i \in 1..Len(df.rows)}

\* line 205
zip_options ==
    IF meta.has_zip
    THEN {df.rows[i].zip_norm.s : i \in {j \in 1..Len(df.rows) : ~df.rows[j].zip_norm.isna}}
    ELSE {}

\* mask without the sex test
mask_no_sex(row, yr, sexes, zsel) ==
    /\ between(row.year, yr[1], yr[2])
    /\ (zsel # ALL_ZIPS => astype_str(row.zip_norm) = zsel)

\* lines 213-215 and 218-220, for one row of df or of melted
mask(row, yr, sexes, zsel) ==
    /\ between(row.year, yr[1], yr[2])
    /\ row.sex \in sexes
    /\ (zsel # ALL_ZIPS => astype_str(row.zip_norm) = zsel)

-----------------------------------------------------------------------------
(* Aggregators *)

\* rows.groupby("year").size(), tagged with the series name (lines 283-285, 290-292)
series_frame(rows, name) ==
    {[year |-> y, count |-> Cardinality({i \in 1..Len(rows) : rows[i].year = y}),
      series |-> name] :
        y \in {rows[i].year : i \in 1..Len(rows)} \ {NaN}}

\* build_lines with a Total that leaves out the rows of other sex values
build_lines_known_sex_total(rows) ==
    (IF rows # <<>>
     THEN series_frame(SelectSeq(rows, LAMBDA r : r.sex \in {"Male", "Female"}), "Total")
     ELSE {})
    \cup UNION {IF \E i \in 1..Len(rows) : rows[i].sex = sx
                THEN series_frame(SelectSeq(rows, LAMBDA r : r.sex = sx), sx)
                ELSE {} : sx \in {"Male", "Female"}}

\* lines 279-295
build_lines(rows) ==
    (IF rows # <<>> THEN series_frame(rows, "Total") ELSE {})
    \cup UNION {IF \E i \in 1..Len(rows) : rows[i].sex = sx
                THEN series_frame(SelectSeq(rows, LAMBDA r : r.sex = sx), sx)
                ELSE {} : sx \in {"Male", "Female"}}

\* line 342
build_subs_year(rows) ==
    {[year |-> k[1], substance |-> k[2],
      mentions |-> Cardinality({i \in 1..Len(rows) :
                        rows[i].year = k[1] /\ rows[i].substance.s = k[2]})] :
        k \in {<<rows[i].year, rows[i].substance.s>> : i \in 1..Len(rows)}}

\* lines 376-379, per row of dff: the combination key, <<>> when subs is empty
build_combos(tbl) ==
    LET od_cols == od_cols_of(tbl.cols)
    IN  [i \in 1..Len(tbl.rows) |->
            IF od_cols = <<>> THEN <<>> ELSE join(subs_of(tbl.rows[i].raw, od_cols))]

\* lines 374-380: the Counter over the keys
count_combos(keys) ==
    [k \in Range(keys) \ {<<>>} |-> Cardinality({i \in 1..Len(keys) : keys[i] = k})]

\* str(x) of a feature property: None prints as "None"
py_str(c) == IF c.isna THEN <<"N", "o", "n", "e">> ELSE c.s

\* line 412
valid_zips_of(features) ==
    {zfill(py_str(features[i].ZCTA5CE10), 5) : i \in 1..Len(features)}

\* lines 413-418
count_zips(rows) ==
    LET present == SelectSeq(rows, LAMBDA r : ~r.zip_norm.isna)
    IN  {[zip_norm |-> z,
          count |-> Cardinality({i \in 1..Len(present) :
                                    zfill(present[i].zip_norm.s, 5) = z})] :
            z \in {zfill(present[i].zip_norm.s, 5) : i \in 1..Len(present)}}

\* restrict_zips keeping every counted ZIP
restrict_zips_keep_all(counts, valid) == counts

\* line 420
restrict_zips(counts, valid) == {zc \in counts : zc.zip_norm \in valid}

-----------------------------------------------------------------------------
(* Inputs: the cells, tables and boundary files the pass is run on *)

Y2007 == Str(<<"2", "0", "0", "7">>)
Y2019 == Str(<<"2", "0", "1", "9">>)
Y2020 == Str(<<"2", "0", "2", "0">>)
YText == Str(<<"n", "/", "a">>)

Z15213 == Str(<<"1", "5", "2", "1", "3">>)
Z15213Plus4 == Str(<<"1", "5", "2", "1", "3", "-", "1", "2", "3", "4">>)
Z15001 == Str(<<"1", "5", "0", "0", "1">>)
ZText == Str(<<"N", "/", "A">>)
ZShort == Str(<<"1", "5", "2">>)

FentanylHcl == Str(<<"FENTANYL", "-", "HCL">>)
Empty == Str(<<>>)

Batches(cols, Rows) ==
    {[cols |-> cols, rows |-> rs] : rs \in UNION {[1..n -> Rows] : n \in 0..MaxRecords}}

YearTables ==
    Batches(<<"case_year", "death_year", "combined_od1">>,
            {("case_year" :> y) @@ ("death_year" :> Y2020) @@
             ("combined_od1" :> Str(<<"HEROIN">>)) :
                y \in {Y2007, Y2019, Y2020, YText, Null}})
    \cup Batches(<<"death_year", "combined_od1">>,
            {("death_year" :> y) @@ ("combined_od1" :> Str(<<"HEROIN">>)) :
                y \in {Y2007, Y2019, Null}})
    \cup Batches(<<"combined_od1">>, {("combined_od1" :> Str(<<"HEROIN">>))})

SexTables ==
    Batches(<<"case_year", "sex">>,
            {("case_year" :> y) @@ ("sex" :> Str(s)) :
                y \in {Y2019, Y2020}, s \in {"M", "F", "X"}})

ZipTables ==
    Batches(<<"case_year", "sex", "zip", "incident_zip">>,
            {("case_year" :> Y2020) @@ ("sex" :> Str("U")) @@ ("zip" :> Z15001) @@
             ("incident_zip" :> z) :
                z \in {Z15213Plus4, Z15001, ZText, ZShort, Null}})
    \cup Batches(<<"case_year", "sex", "zcta">>,
            {("case_year" :> Y2020) @@ ("sex" :> s) @@ ("zcta" :> z) :
                s \in {Str("U"), Null}, z \in {Z15213, Z15001}})

SubstanceTables ==
    Batches(<<"case_year", "sex", "incident_zip", "combined_od1", "Combined_OD2">>,
            {("case_year" :> Y2020) @@ ("sex" :> Str("M")) @@
             ("incident_zip" :> Z15213Plus4) @@ ("combined_od1" :> a) @@
             ("Combined_OD2" :> b) :
                a \in {FentanylHcl, Str(<<"COCAINE">>), Str(<<"XYLAZINE">>), Str(<<" ">>), Null},
                b \in {Empty, Str(<<"fentanyl">>), Str(<<"cocaine">>)}})

FilterTables ==
    Batches(<<"case_year", "sex", "incident_zip", "combined_od1">>,
            {("case_year" :> y) @@ ("sex" :> Str(s)) @@ ("incident_zip" :> z) @@
             ("combined_od1" :> Str(<<"HEROIN">>)) :
                y \in {Y2019, Y2020}, s \in {"M", "F"}, z \in {Z15213, Z15001}})

ApiTable ==
    [cols |-> <<"case_year", "sex", "incident_zip", "combined_od1">>,
     rows |-> <<("case_year" :> Y2020) @@ ("sex" :> Str("M")) @@
                ("incident_zip" :> Z15213) @@ ("combined_od1" :> FentanylHcl)>>]

CsvTable ==
    [cols |-> <<"case_year", "sex", "incident_zip", "combined_od1">>,
     rows |-> <<("case_year" :> Y2019) @@ ("sex" :> Str("F")) @@
                ("incident_zip" :> Z15001) @@ ("combined_od1" :> Str(<<"Heroin">>))>>]

\* boundary files: the features' properties
GeoBoth == <<[ZCTA5CE10 |-> Z15213], [ZCTA5CE10 |-> Z15001]>>
GeoPartial == <<[ZCTA5CE10 |-> Z15213], [ZCTA5CE10 |-> Null]>>

HarnessLexemes ==
    {"fentanyl", "HEROIN", "cocaine", "alcohol", "opiate", "XYLAZINE", " ", "-"}

HarnessCells ==
    {Null} \cup {Str(s) : s \in UNION {[1..n -> HarnessLexemes] : n \in 0..MaxLexemes}}

-----------------------------------------------------------------------------
(* Initial states *)

Start(api, csv, geo, lgeo, c, at) ==
    /\ api_response = api /\ local_csv = csv
    /\ geo_response = geo /\ local_geojson = lgeo
    /\ pc = at
    /\ df_raw = Null /\ df = Null /\ melted = <<>> /\ meta = Null
    /\ year_range = Null /\ sex_filter = {} /\ zip_select = Null
    /\ dff = Null /\ meltedf = <<>>
    /\ lines_df = {} /\ subs_year = {} /\ combos = <<>> /\ combo_counts = <<>>
    /\ geojson = Null /\ zip_counts = {}
    /\ charts = {} /\ notices = {}
    /\ cell = c /\ labels = Null

Init ==
    \/ \E tbl \in YearTables \cup SexTables \cup SubstanceTables \cup FilterTables :
          Start(Ok(tbl), Fail, Ok(GeoBoth), Fail, Null, "load")
    \/ \E tbl \in ZipTables, geo \in {GeoBoth, GeoPartial} :
          Start(Ok(tbl), Fail, Ok(geo), Fail, Null, "load")
    \/ \E api \in {Fail, Ok(ApiTable)}, csv \in {Fail, Ok(CsvTable)},
          geo \in {Fail, Ok(GeoBoth)}, lgeo \in {Fail, Ok(GeoPartial)} :
          Start(api, csv, geo, lgeo, Null, "load")
    \/ \E c \in HarnessCells :
          Start(Fail, Fail, Fail, Fail, c, "classify")

-----------------------------------------------------------------------------
(* Steps of the pass *)

env == <<api_response, local_csv, geo_response, local_geojson>>
harness == <<cell, labels>>
tidied == <<df_raw, df, melted, meta>>
widgets == <<year_range, sex_filter, zip_select, dff, meltedf>>

\* lines 167-171: load, or show the error and st.stop()
Load ==
    /\ pc = "load"
    /\ LET r == load_from_api
       IN  IF r.ret.ok
           THEN /\ df_raw' = r.ret.v
                /\ notices' = notices \cup r.shown
                /\ pc' = "tidy"
           ELSE /\ df_raw' = df_raw
                /\ notices' = notices \cup r.shown
                                \cup {"error: Could not fetch data from API"}
                /\ pc' = "stopped"
    /\ UNCHANGED <<env, harness, df, melted, meta, widgets, lines_df, subs_year, combos,
                   combo_counts, geojson, zip_counts, charts>>

\* line 173
Tidy ==
    /\ pc = "tidy"
    /\ LET t == tidy(df_raw)
       IN  /\ df' = t.df
           /\ melted' = t.melted
           /\ meta' = t.meta
    /\ pc' = "filters"
    /\ UNCHANGED <<env, harness, df_raw, widgets, lines_df, subs_year, combos,
                   combo_counts, geojson, zip_counts, charts, notices>>

\* lines 194-221: the three widgets are set, then both masks are applied
Filters ==
    /\ pc = "filters"
    /\ meta.year_min <= meta.year_max
    /\ \E lo \in SliderStops \cup {meta.year_min, meta.year_max},
          hi \in SliderStops \cup {meta.year_min, meta.year_max},
          sexes \in SUBSET sexes_all,
          zsel \in {ALL_ZIPS} \cup zip_options :
          /\ meta.year_min <= lo /\ lo <= hi /\ hi <= meta.year_max
          /\ year_range' = <<lo, hi>>
          /\ sex_filter' = sexes
          /\ zip_select' = zsel
          /\ dff' = [cols |-> df.cols,
                     rows |-> SelectSeq(df.rows, LAMBDA r : mask(r, <<lo, hi>>, sexes, zsel))]
          /\ meltedf' = SelectSeq(melted, LAMBDA m : mask(m, <<lo, hi>>, sexes, zsel))
    /\ pc' = "viz1"
    /\ UNCHANGED <<env, harness, tidied, lines_df, subs_year, combos, combo_counts,
                   geojson, zip_counts, charts, notices>>

\* lines 195-199 when year_min > year_max: the slider is handed min_value > max_value;
\* the widget's answer is the UI framework's, and the pass is taken to end there.
FiltersRejected ==
    /\ pc = "filters"
    /\ meta.year_min > meta.year_max
    /\ pc' = "crashed"
    /\ UNCHANGED <<env, harness, tidied, widgets, lines_df, subs_year, combos,
                   combo_counts, geojson, zip_counts, charts, notices>>

\* lines 279-329; the "Show series" multiselect keeps some series or none
Viz1 ==
    /\ pc = "viz1"
    /\ lines_df' = build_lines(dff.rows)
    /\ IF lines_df' # {}
       THEN \E some \in BOOLEAN :
               IF some
               THEN charts' = charts \cup {"fig1"} /\ notices' = notices
               ELSE /\ charts' = charts
                    /\ notices' = notices \cup {"info: Select at least one series"}
       ELSE /\ charts' = charts
            /\ notices' = notices \cup {"info: No data available for the selected filters"}
    /\ pc' = "viz2"
    /\ UNCHANGED <<env, harness, tidied, widgets, subs_year, combos, combo_counts,
                   geojson, zip_counts>>

\* lines 339-351
\* Viz 2 without the emptiness test of line 339: the chart is drawn whatever the
\* filtered long table holds.
Viz2_unguarded ==
    /\ pc = "viz2"
    /\ subs_year' = build_subs_year(meltedf)
    /\ charts' = charts \cup {"fig2"}
    /\ notices' = notices
    /\ pc' = "viz4"
    /\ UNCHANGED <<env, harness, tidied, widgets, lines_df, combos, combo_counts,
                   geojson, zip_counts>>

Viz2 ==
    /\ pc = "viz2"
    /\ IF meltedf # <<>>
       THEN /\ subs_year' = build_subs_year(meltedf)
            /\ charts' = charts \cup {"fig2"}
            /\ notices' = notices
       ELSE /\ subs_year' = subs_year
            /\ charts' = charts
            /\ notices' = notices \cup {"info: Substance fields are unavailable"}
    /\ pc' = "viz4"
    /\ UNCHANGED <<env, harness, tidied, widgets, lines_df, combos, combo_counts,
                   geojson, zip_counts>>

\* lines 353-394
Viz4 ==
    /\ pc = "viz4"
    /\ combos' = build_combos(dff)
    /\ combo_counts' = count_combos(combos')
    /\ IF DOMAIN combo_counts' # {}
       THEN charts' = charts \cup {"fig4"} /\ notices' = notices
       ELSE /\ charts' = charts
            /\ notices' = notices \cup {"info: No drug-combination data available"}
    /\ pc' = "viz3"
    /\ UNCHANGED <<env, harness, tidied, widgets, lines_df, subs_year, geojson, zip_counts>>

\* lines 409-446
Viz3 ==
    /\ pc = "viz3"
    /\ IF meta.has_zip
       THEN LET r == load_geojson
            IN  IF r.ret.ok
                THEN /\ geojson' = r.ret
                     /\ zip_counts' = restrict_zips(count_zips(dff.rows),
                                                    valid_zips_of(r.ret.v))
                     /\ IF zip_counts' = {}
                        THEN /\ charts' = charts
                             /\ notices' = notices \cup r.shown
                                    \cup {"info: No ZIPs match the PA ZIP boundary file"}
                        ELSE /\ charts' = charts \cup {"fig3"}
                             /\ notices' = notices \cup r.shown
                ELSE /\ geojson' = Fail
                     /\ zip_counts' = zip_counts
                     /\ charts' = charts
                     /\ notices' = notices \cup r.shown
                            \cup {"warning: Choropleth could not be rendered"}
       ELSE /\ geojson' = geojson
            /\ zip_counts' = zip_counts
            /\ charts' = charts
            /\ notices' = notices \cup {"info: ZIP information not available"}
    /\ pc' = "done"
    /\ UNCHANGED <<env, harness, tidied, widgets, lines_df, subs_year, combos, combo_counts>>

\* the two classifiers applied to one cell
Classify ==
    /\ pc = "classify"
    /\ labels' = [long |-> classify(cell), combo |-> clean_substance(cell)]
    /\ pc' = "classified"
    /\ UNCHANGED <<env, cell, tidied, widgets, lines_df, subs_year, combos, combo_counts,
                   geojson, zip_counts, charts, notices>>

Next ==
    \/ Load
    \/ Tidy
    \/ Filters
    \/ FiltersRejected
    \/ Viz1
    \/ Viz2
    \/ Viz4
    \/ Viz3
    \/ Classify

Spec == Init /\ [][Next]_vars

-----------------------------------------------------------------------------
(* Properties *)

AfterTidy == pc \in {"filters", "viz1", "viz2", "viz4", "viz3", "done", "crashed"}
AfterFilters == pc \in {"viz1", "viz2", "viz4", "viz3", "done"}

\* the years a batch holds, read as the text describes: from case_year when that
\* column exists, else from death_year, else none
YearColumn(tbl) ==
    IF "case_year" \in Range(tbl.cols) THEN {"case_year"}
    ELSE IF "death_year" \in Range(tbl.cols) THEN {"death_year"}
    ELSE {}

ObservedYears(tbl) ==
    {to_numeric(tbl.rows[i][c]) : i \in 1..Len(tbl.rows), c \in YearColumn(tbl)} \ {NaN}

YearWithin(row) ==
    row.year = NaN \/ (meta.year_min <= row.year /\ row.year <= meta.year_max)

\* C1: once tidy() has returned, every row of the wide table and every row of the
\* long table has a year that is absent or lies in [meta.year_min, meta.year_max].
C1_YearsWithinBounds ==
    AfterTidy =>
        /\ \A i \in 1..Len(df.rows) : YearWithin(df.rows[i])
        /\ \A i \in 1..Len(melted) : YearWithin(melted[i])

\* C1 witness: a batch with a year below year_min and a year inside the bounds has
\* been tidied; rows remain in both tables and the low row is gone from the wide one.
C1_Witness ==
    /\ AfterTidy
    /\ \E y \in ObservedYears(df_raw) : y < meta.year_min
    /\ df.rows # <<>> /\ melted # <<>>
    /\ Len(df.rows) < Len(df_raw.rows)

\* C5: the year column is case_year, else death_year, else none; with an observed
\* year, year_min = max(min observed, 2008) and year_max = max observed; with none,
\* year_min = 2008 and year_max = 2025.
C5_YearBounds ==
    AfterTidy =>
        LET ys == ObservedYears(df_raw)
        IN  IF ys # {}
            THEN LET lowest == CHOOSE y \in ys : \A z \in ys : y <= z
                     highest == CHOOSE y \in ys : \A z \in ys : y >= z
                 IN  /\ meta.year_min = (IF lowest > 2008 THEN lowest ELSE 2008)
                     /\ meta.year_max = highest
            ELSE meta.year_min = 2008 /\ meta.year_max = 2025

\* C5 witness: a batch without case_year whose death_year column holds 2007 and 2019
\* has been tidied, giving the floor 2008 and the maximum 2019.
C5_Witness ==
    /\ AfterTidy
    /\ YearColumn(df_raw) = {"death_year"}
    /\ ObservedYears(df_raw) = {2007, 2019}
    /\ meta.year_min = 2008 /\ meta.year_max = 2019

-----------------------------------------------------------------------------

\* the ZIP field of a batch: the first of the five candidate names that is a column
ZipColumn(tbl) ==
    {ZipCandidates[i] : i \in {j \in 1..Len(ZipCandidates) :
        /\ ZipCandidates[j] \in Range(tbl.cols)
        /\ \A k \in 1..(j - 1) : ZipCandidates[k] \notin Range(tbl.cols)}}

FiveDigitRuns(s) ==
    {i \in 1..(Len(s) - 4) : \A k \in i..(i + 4) : s[k] \in Digits}

\* C2: a record whose ZIP field, as a string, holds no run of five digits has an
\* absent zip; otherwise its zip is the first such run; so every present zip is
\* exactly five ASCII digits.
C2_ZipAbsentOrFiveDigits ==
    AfterTidy =>
        \A i \in 1..Len(df.rows) :
            LET row == df.rows[i]
            IN  /\ \A c \in ZipColumn(df_raw) :
                     LET s == astype_str(row.raw[c])
                         runs == FiveDigitRuns(s)
                     IN  IF runs = {} THEN row.zip_norm.isna
                         ELSE \E j \in runs :
                                 /\ \A k \in runs : j <= k
                                 /\ row.zip_norm = Str(SubSeq(s, j, j + 4))
                /\ ~row.zip_norm.isna =>
                     /\ Len(row.zip_norm.s) = 5
                     /\ \A k \in 1..5 : row.zip_norm.s[k] \in Digits

IsNonEmptyString(c) == ~c.isna /\ c.s # <<>>

Mentions(case, c) ==
    {j \in 1..Len(melted) : melted[j].case = case /\ melted[j].od_col = c}

\* C3: each (record, substance column) pair of a kept record yields exactly one
\* long-table row when the cell is a non-empty string and none when it is empty or
\* not a string; so combined_od1 = "FENTANYL-HCL" with combined_od2 = "" gives one
\* mention, Fentanyl, carrying the record's year, sex and zip.
C3_OneMentionPerNonEmptyCell ==
    AfterTidy =>
        /\ \A i \in 1..Len(df.rows) :
              \A c \in {c \in Range(df.cols) : IsOdCol(c)} :
                 Cardinality(Mentions(df.rows[i].case, c))
                    = (IF IsNonEmptyString(df.rows[i].raw[c]) THEN 1 ELSE 0)
        /\ \A i \in 1..Len(df.rows) :
              (/\ "combined_od1" \in Range(df.cols) /\ "Combined_OD2" \in Range(df.cols)
               /\ df.rows[i].raw["combined_od1"] = FentanylHcl
               /\ df.rows[i].raw["Combined_OD2"] = Empty)
              => \E j \in 1..Len(melted) :
                    /\ {k \in 1..Len(melted) : melted[k].case = df.rows[i].case} = {j}
                    /\ melted[j].substance = Str(<<"Fentanyl">>)
                    /\ melted[j].year = df.rows[i].year
                    /\ melted[j].sex = df.rows[i].sex
                    /\ melted[j].zip_norm = df.rows[i].zip_norm

Loaded == pc \in {"stopped", "tidy", "filters", "viz1", "viz2", "viz4", "viz3", "done",
                  "crashed"}

NothingComputed ==
    charts = {} /\ lines_df = {} /\ subs_year = {} /\ combo_counts = <<>> /\ zip_counts = {}

FallbackHolds ==
    /\ (Loaded /\ ~api_response.ok /\ local_csv.ok) =>
          /\ pc # "stopped"
          /\ df_raw = local_csv.v
          /\ "error: Could not fetch data from API" \notin notices
    /\ (Loaded /\ ~api_response.ok /\ ~local_csv.ok) =>
          /\ pc = "stopped"
          /\ NothingComputed
    /\ (pc = "done" /\ meta.has_zip /\ ~geo_response.ok /\ local_geojson.ok) =>
          /\ geojson = Ok(local_geojson.v)
          /\ "warning: Choropleth could not be rendered" \notin notices

BoundariesUnavailable ==
    pc = "done" /\ meta.has_zip /\ ~geo_response.ok /\ ~local_geojson.ok

C6_FilterPredicate ==
    AfterFilters =>
        LET Passes(r) ==
                /\ r.year # NaN
                /\ year_range[1] <= r.year /\ r.year <= year_range[2]
                /\ r.sex \in sex_filter
                /\ (zip_select = ALL_ZIPS \/ r.zip_norm = Str(zip_select))
        IN  /\ Range(dff.rows) = {r \in Range(df.rows) : Passes(r)}
            /\ Len(dff.rows) = Cardinality(Range(dff.rows))
            /\ Range(meltedf) = {m \in Range(melted) : Passes(m)}
            /\ Len(meltedf) = Cardinality(Range(meltedf))
            /\ \A r \in Range(dff.rows) \cup Range(meltedf) : r.year # NaN

\* C6 witness: a ZIP, a proper subset of the sexes and a year range short of the
\* bounds are selected; a row of each table passes and a row of each is filtered out.
C6_Witness ==
    /\ AfterFilters
    /\ zip_select # ALL_ZIPS
    /\ sex_filter # {} /\ sex_filter # sexes_all
    /\ year_range[1] > meta.year_min
    /\ dff.rows # <<>> /\ Len(dff.rows) < Len(df.rows)
    /\ meltedf # <<>> /\ Len(meltedf) < Len(melted)

-----------------------------------------------------------------------------

AfterViz1 == pc \in {"viz2", "viz4", "viz3", "done"}
AfterViz4 == pc \in {"viz3", "done"}

Scenario4 ==
    /\ df_raw.cols = <<"case_year", "sex">>
    /\ df_raw.rows = <<("case_year" :> Y2019) @@ ("sex" :> Str("M")),
                       ("case_year" :> Y2019) @@ ("sex" :> Str("F"))>>
    /\ sex_filter = {"Female"}
    /\ year_range = <<2019, 2019>>

\* C7: over the filtered wide table, Total gives per year the count of all filtered
\* rows of that year, whatever their sex; a Male (Female) series exists iff a
\* filtered row has that sex and gives the per-year count of those rows; no other
\* sex value has a series.  With sexes = {Female} and years (2019, 2019) over one
\* Male-2019 and one Female-2019 record: Total = 1, Female = 1, no Male series.
C7_TimeSeries ==
    AfterViz1 =>
        LET rows == dff.rows
            years == {rows[i].year : i \in 1..Len(rows)}
            sexes == {rows[i].sex : i \in 1..Len(rows)}
            N(y, S) == Cardinality({i \in 1..Len(rows) :
                                        rows[i].year = y /\ rows[i].sex \in S})
            Series(name) == {l \in lines_df : l.series = name}
            Gives(name, S) ==
                /\ \A l \in Series(name) : l.count = N(l.year, S) /\ l.count > 0
                /\ \A y \in years : N(y, S) > 0 => \E l \in Series(name) : l.year = y
                /\ \A l1, l2 \in Series(name) : l1.year = l2.year => l1 = l2
        IN  /\ \A l \in lines_df : l.series \in {"Total", "Male", "Female"}
            /\ Gives("Total", sexes)
            /\ \A sx \in {"Male", "Female"} :
                  /\ Series(sx) # {} <=> sx \in sexes
                  /\ Gives(sx, {sx})
            /\ Scenario4 =>
                  lines_df = {[year |-> 2019, count |-> 1, series |-> "Total"],
                              [year |-> 2019, count |-> 1, series |-> "Female"]}

\* C7 witness: the Male-2019 / Female-2019 table under sexes = {Female} and years
\* (2019, 2019), after the series were built.
C7_Witness == AfterViz1 /\ Scenario4 /\ lines_df # {}

\* the labels of a combination key: its pieces between the " + " separators
RECURSIVE KeyLabels(_)
KeyLabels(k) ==
    IF \E i \in 1..Len(k) : k[i] = " + "
    THEN LET i == CHOOSE j \in 1..Len(k) : k[j] = " + " /\ \A m \in 1..(j - 1) : k[m] # " + "
         IN  <<SubSeq(k, 1, i - 1)>> \o KeyLabels(SubSeq(k, i + 1, Len(k)))
    ELSE <<k>>

\* the non-empty labels of the substance cells of one filtered case
CaseLabels(row) ==
    {l.s : l \in {g \in {clean_substance(row.raw[c]) : c \in {d \in Range(dff.cols) : IsOdCol(d)}} :
                      ~g.isna /\ g.s # <<>>}}

BothFentanylAndCocaine ==
    /\ Len(dff.rows) = 2
    /\ \A i \in 1..2 : CaseLabels(dff.rows[i]) = {<<"Fentanyl">>, <<"Cocaine">>}

\* C8: the key of a filtered case is its deduplicated labels in alphabetical order
\* joined with " + "; the count of a key is the number of filtered cases producing
\* it (two cases of {Fentanyl, Cocaine} give "Cocaine + Fentanyl": 2); a case
\* contributes to at most one key, and a case with zero recognized substances, that
\* is one none of whose cells yields a label, contributes none.
C8_CombinationCounts ==
    AfterViz4 =>
        /\ Len(combos) = Len(dff.rows)
        /\ \A i \in 1..Len(dff.rows) :
              LET L == CaseLabels(dff.rows[i])
                  ls == KeyLabels(combos[i])
              IN  IF L = {} THEN combos[i] = <<>>
                  ELSE /\ Range(ls) = L
                       /\ \A a, b \in 1..Len(ls) : a < b => str_lt(ls[a], ls[b])
                       /\ combos[i] \in DOMAIN combo_counts
        /\ \A k \in DOMAIN combo_counts :
              /\ k # <<>>
              /\ combo_counts[k] = Cardinality({i \in 1..Len(combos) : combos[i] = k})
              /\ combo_counts[k] > 0
        /\ BothFentanylAndCocaine =>
              combo_counts = (<<"Cocaine", " + ", "Fentanyl">> :> 2)

\* C8 witness: two filtered cases, each with Fentanyl in one column and Cocaine in the
\* other, have been counted.
C8_Witness == AfterViz4 /\ BothFentanylAndCocaine

\* the keyword groups in their order of precedence
Groups == <<"Fentanyl", "Heroin", "Cocaine", "Alcohol", "Other Opioids">>

GroupKeywords ==
    ("Fentanyl" :> {"FENTANYL"}) @@ ("Heroin" :> {"HEROIN"}) @@ ("Cocaine" :> {"COCAINE"}) @@
    ("Alcohol" :> {"ALCOHOL"}) @@
    ("Other Opioids" :> {"MORPHINE", "OXYCODONE", "HYDROCODONE", "OPIOID", "OPIATE"})

\* the groups a string matches, case-insensitively
Matching(s) ==
    {g \in 1..Len(Groups) : \E i \in 1..Len(s) : UpperOf[s[i]] \in GroupKeywords[Groups[g]]}

\* C9: both classifiers return the earliest group, in the order Fentanyl, Heroin,
\* Cocaine, Alcohol, Other Opioids, that has a keyword in the string (so Fentanyl
\* for a string with both "fentanyl" and "heroin"), and they differ only on strings
\* that match no keyword.
C9_FirstMatchWins ==
    /\ pc = "classified" =>
          /\ cell.isna => labels.long.isna /\ labels.combo.isna
          /\ ~cell.isna =>
                LET hit == Matching(cell.s)
                IN  /\ hit # {} =>
                          \E g \in hit :
                             /\ \A h \in hit : g <= h
                             /\ labels.long = Str(<<Groups[g]>>)
                             /\ labels.combo = Str(<<Groups[g]>>)
                    /\ hit = {} => labels.long = Str(<<"Other/Unknown">>)
          /\ labels.long # labels.combo => ~cell.isna /\ Matching(cell.s) = {}
    /\ AfterTidy =>
          \A j \in 1..Len(melted) :
             LET hit == Matching(melted[j].raw_substance.s)
             IN  hit # {} =>
                    \E g \in hit : /\ \A h \in hit : g <= h
                                   /\ melted[j].substance = Str(<<Groups[g]>>)

\* C9 witness: a cell with "HEROIN" ahead of "fentanyl" has been classified as
\* Fentanyl by both classifiers.
C9_Witness ==
    /\ pc = "classified"
    /\ cell = Str(<<"HEROIN", " ", "fentanyl">>)
    /\ labels.long = Str(<<"Fentanyl">>) /\ labels.combo = Str(<<"Fentanyl">>)

\* the ZIP identifiers of the boundary file
BoundaryZips ==
    {geojson.v[i].ZCTA5CE10.s : i \in {j \in 1..Len(geojson.v) : ~geojson.v[j].ZCTA5CE10.isna}}

FilteredZips ==
    {dff.rows[i].zip_norm.s : i \in {j \in 1..Len(dff.rows) : ~dff.rows[j].zip_norm.isna}}

MapBuilt == pc = "done" /\ meta.has_zip /\ geojson # Fail

\* C10: every ZIP of the map aggregate is a ZIP identifier of the boundary set and
\* its count is the number of filtered cases with that zip; a ZIP with filtered cases
\* that the boundary set lacks is left out of the map aggregate, without an error
\* and without a change to the time-series, substance-by-year or combination
\* aggregates.
C10_ZipCounts ==
    /\ [](MapBuilt =>
            /\ \A zc \in zip_counts :
                  /\ zc.zip_norm \in BoundaryZips
                  /\ zc.count = Cardinality({i \in 1..Len(dff.rows) :
                                                dff.rows[i].zip_norm = Str(zc.zip_norm)})
            /\ \A z \in FilteredZips \cap BoundaryZips : \E zc \in zip_counts : zc.zip_norm = z
            /\ \A z \in FilteredZips \ BoundaryZips : \A zc \in zip_counts : zc.zip_norm # z
            /\ "warning: Choropleth could not be rendered" \notin notices)
    /\ [][pc = "viz3" =>
            lines_df' = lines_df /\ subs_year' = subs_year /\ combo_counts' = combo_counts]_vars

\* C10 witness: the map aggregate was built from filtered cases of which some have a
\* ZIP of the boundary set and some a ZIP the boundary set lacks.
C10_Witness ==
    /\ MapBuilt
    /\ zip_counts # {}
    /\ FilteredZips \ BoundaryZips # {}

\* ---------------------------------------------------------------------------
\* Empty filtered input (lines 279-329, 339-394, 409-446)

\* No row passed the filters: the filtered wide table and the filtered long table
\* are both empty.
EmptyFiltered == AfterFilters /\ dff.rows = <<>> /\ meltedf = <<>>

\* The four aggregates are empty and no chart was rendered.
EmptyAggregates ==
    /\ lines_df = {}
    /\ subs_year = {}
    /\ combo_counts = <<>>
    /\ zip_counts = {}
    /\ charts = {}

\* The no-data notices of the time series, the substance-by-year and the
\* drug-combination sections.
NoDataNotices ==
    /\ "info: No data available for the selected filters" \in notices
    /\ "info: Substance fields are unavailable" \in notices
    /\ "info: No drug-combination data available" \in notices

\* The no-data notice of the ZIP section: no ZIP matches, or no ZIP information.
ZipNoDataNotice ==
    \/ "info: No ZIPs match the PA ZIP boundary file" \in notices
    \/ "info: ZIP information not available" \in notices

\* The ZIP section met an exception: the boundary loader raised, its error was
\* shown and the section reported that the choropleth could not be rendered.
ZipSectionFailed ==
    \/ "warning: Choropleth could not be rendered" \in notices
    \/ "error: Local GeoJSON file not found" \in notices

Max2(a, b) == IF a >= b THEN a ELSE b

\* The default value of the year slider (line 198).
SliderDefault == <<Max2(meta.year_min, meta.year_max - 7), meta.year_max>>

\* C12 as stated: for every input batch the metadata of tidy satisfies
\* year_min <= year_max, so the slider built from it (min_value = year_min,
\* max_value = year_max, default (max(year_min, year_max - 7), year_max)) is a valid
\* non-empty range, also when every observed year is below the 2008 floor.
C12_YearRangeValid ==
    AfterTidy =>
        /\ meta.year_min <= meta.year_max
        /\ meta.year_min <= SliderDefault[1]
        /\ SliderDefault[1] <= SliderDefault[2]
        /\ SliderDefault[2] <= meta.year_max

====
